---- MODULE Spec2Model ----
(***************************************************************************)
(* createMetroConfigTransformer and composeMetroConfigTransformers as a    *)
(* state machine over a heap of promises and functions.                    *)
(*                                                                         *)
(* A JavaScript value is a record [t, id, tags]: a configuration object    *)
(* ("cfg", the sequence of marks it carries), a promise ("prom", an index  *)
(* into promises), a function ("fn", an index into fns), an options value  *)
(* ("opt"), an error ("err") or undefined ("undef").                       *)
(***************************************************************************)
EXTENDS Integers, Sequences, FiniteSets, TLC

\* ---------------------------------------------------------------- bounds
MaxEntries == 3
MaxInvokes == 1

\* ---------------------------------------------------------------- values
Undef == [t |-> "undef", id |-> 0, tags |-> <<>>]
Cfg(tags) == [t |-> "cfg", id |-> 0, tags |-> tags]
Prom(i) == [t |-> "prom", id |-> i, tags |-> <<>>]
Fn(i) == [t |-> "fn", id |-> i, tags |-> <<>>]
Err(tag) == [t |-> "err", id |-> 0, tags |-> <<tag>>]
Opt(name) == [t |-> "opt", id |-> 0, tags |-> <<name>>]

TagNames == <<"T1", "T2", "T3", "T4", "T5", "T6">>
Tag(m) == TagNames[m]
OptNames == <<"o1", "o2", "o3", "o4", "o5", "o6">>
BaseOrder == <<"b1", "b2">>
Bases == {BaseOrder[i] : i \in 1..Len(BaseOrder)}
MutateKinds == {"sync", "async", "throw", "reject"}
ProducerKinds == {"sync", "async", "throw", "reject"}

VARIABLES
    entries,    \* the ...entries of composeMetroConfigTransformers
    input,      \* the value handed to the combined transformer
    pc,         \* "idle", "folding", "returned" or "threw"
    idx,        \* index of the next entry of the reduce
    acc,        \* accumulator of the reduce
    output,     \* what the combined transformer returned, or the error it threw
    promises,   \* heap of promises
    fns,        \* heap of functions
    jobs,       \* promise reaction jobs (microtask queue)
    mlog,       \* every call of a mutate: [m, opts, cfg]
    elog,       \* every entry the reduce callback was run for
    flog,       \* every return of a function: [fn, base, v, thrown, top]
    other       \* a second call of the same combined transformer: [pc, input, output]

vars == <<entries, input, pc, idx, acc, output, promises, fns, jobs,
          mlog, elog, flog, other>>

\* ---------------------------------------------------------------- type tests
IsFunction(v) == v.t = "fn"
IsPromise(v) == v.t = "prom"

\* ---------------------------------------------------------------- the heap
NoFate == [has |-> FALSE, ok |-> TRUE, val |-> Undef]
Fate(ok, v) == [has |-> TRUE, ok |-> ok, val |-> v]

NewPromise(k, fate, src, m, opts) ==
    [state |-> "pending", val |-> Undef, fate |-> fate, k |-> k, src |-> src,
     m |-> m, opts |-> opts, reactions |-> <<>>]

ProducerFn(pk) == [k |-> "producer", pk |-> pk, inner |-> 0, m |-> 0, opts |-> Undef]
WrapperFn(inner, m, opts) ==
    [k |-> "wrapper", pk |-> "none", inner |-> inner, m |-> m, opts |-> opts]

World == [P |-> promises, F |-> fns, J |-> jobs, L |-> mlog]

Reaction(k, m, opts, target) == [k |-> k, m |-> m, opts |-> opts, target |-> target]
JobOf(r, ok, v) ==
    [k |-> r.k, m |-> r.m, opts |-> r.opts, target |-> r.target, ok |-> ok, val |-> v]

\* A promise settles: its reactions become jobs, in registration order.
SettlePromise(W, p, ok, v) ==
    LET rs == W.P[p].reactions
    IN  [W EXCEPT !.P[p] = [@ EXCEPT !.state = IF ok THEN "fulfilled" ELSE "rejected",
                                     !.val = v, !.reactions = <<>>],
                  !.J = W.J \o [i \in 1..Len(rs) |-> JobOf(rs[i], ok, v)]]

\* Registers reaction r on promise p: queued at once when p is already settled.
AddReaction(W, p, r) ==
    IF W.P[p].state = "pending"
    THEN [W EXCEPT !.P[p].reactions = Append(@, r)]
    ELSE [W EXCEPT !.J = Append(@, JobOf(r, W.P[p].state = "fulfilled", W.P[p].val))]

\* p.then(callback): a new promise, settled by the callback's job.
Then(W, p, k, m, opts) ==
    LET t == Len(W.P) + 1
        W1 == [W EXCEPT !.P = Append(@, NewPromise(k, NoFate, p, m, opts))]
    IN  [W |-> AddReaction(W1, p, Reaction(k, m, opts, t)), v |-> Prom(t), thrown |-> FALSE]

\* The outcome res of a then-callback resolves the derived promise t: a thrown
\* error rejects it, a returned promise is followed, another value fulfils it.
ResolveWith(W, t, res) ==
    IF res.thrown THEN SettlePromise(W, t, FALSE, res.v)
    ELSE IF IsPromise(res.v)
         THEN AddReaction(W, res.v.id, Reaction("forward", 0, Undef, t))
         ELSE SettlePromise(W, t, TRUE, res.v)

\* ---------------------------------------------------------------- mutate
\* The caller's mutation of entry m: marks the configuration with Tag(m),
\* synchronously or through a promise, or fails with its own error.
InvokeMutate(W, m, cfg, opts) ==
    LET out == Cfg(Append(cfg.tags, Tag(m)))
        W1 == [W EXCEPT !.L = Append(@, [m |-> m, opts |-> opts, cfg |-> cfg.tags])]
        p == Len(W.P) + 1
        kind == entries[m].kind
    IN  CASE kind = "sync" -> [W |-> W1, v |-> out, thrown |-> FALSE]
          [] kind = "throw" -> [W |-> W1, v |-> Err(Tag(m)), thrown |-> TRUE]
          [] kind = "async" ->
                [W |-> [W1 EXCEPT !.P = Append(@, NewPromise("mutate", Fate(TRUE, out), 0, m, opts))],
                 v |-> Prom(p), thrown |-> FALSE]
          [] kind = "reject" ->
                [W |-> [W1 EXCEPT !.P = Append(@, NewPromise("mutate", Fate(FALSE, Err(Tag(m))), 0, m, opts))],
                 v |-> Prom(p), thrown |-> FALSE]

\* The input producer called with base configuration b.
InvokeProducer(W, pk, b) ==
    LET out == Cfg(<<b, "P">>)
        p == Len(W.P) + 1
    IN  CASE pk = "sync" -> [W |-> W, v |-> out, thrown |-> FALSE]
          [] pk = "throw" -> [W |-> W, v |-> Err("P"), thrown |-> TRUE]
          [] pk = "async" ->
                [W |-> [W EXCEPT !.P = Append(@, NewPromise("producer", Fate(TRUE, out), 0, 0, Undef))],
                 v |-> Prom(p), thrown |-> FALSE]
          [] pk = "reject" ->
                [W |-> [W EXCEPT !.P = Append(@, NewPromise("producer", Fate(FALSE, Err("P")), 0, 0, Undef))],
                 v |-> Prom(p), thrown |-> FALSE]

\* ---------------------------------------------------------------- createMetroConfigTransformer
\* Faulty variant: the function branch is async, so it hands back a promise of
\* the wrapper, not the wrapper.
MakeWrapperDeferred(W, f, m, opts) ==
    LET W1 == [W EXCEPT !.F = Append(@, WrapperFn(f.id, m, opts))]
    IN  [W |-> [W1 EXCEPT !.P = Append(@, [NewPromise("then", NoFate, 0, m, opts)
                                            EXCEPT !.state = "fulfilled",
                                                   !.val = Fn(Len(W1.F))])],
         v |-> Prom(Len(W.P) + 1), thrown |-> FALSE]

\* Faulty variant: the function branch is eager: it mutates what the callable
\* yields for a default base configuration when the transformer is applied.
MakeWrapperEager(W, f, m, opts) ==
    LET r == InvokeMutate(W, m, Cfg(<<"b1", "P">>), opts)
    IN  [W |-> [r.W EXCEPT !.F = Append(@, WrapperFn(f.id, m, opts))],
         v |-> Fn(Len(W.F) + 1), thrown |-> FALSE]

\* The arrow function (baseConfig) => ... closing over the callable f.
MakeWrapper(W, f, m, opts) ==
    [W |-> [W EXCEPT !.F = Append(@, WrapperFn(f.id, m, opts))],
     v |-> Fn(Len(W.F) + 1), thrown |-> FALSE]

\* Faulty variant: the wrapper awaits the callable's result whether it is a promise or not.
WrapperResultAwaits(W, result, m, opts) ==
    IF IsPromise(result)
    THEN Then(W, result.id, "wrapper", m, opts)
    ELSE LET W1 == [W EXCEPT !.P = Append(@, [NewPromise("then", NoFate, 0, 0, Undef)
                                               EXCEPT !.state = "fulfilled", !.val = result])]
         IN  Then(W1, Len(W1.P), "wrapper", m, opts)

\* What the wrapper does with the result of the callable it wraps.
WrapperResult(W, result, m, opts) ==
    IF IsPromise(result)
    THEN Then(W, result.id, "wrapper", m, opts)
    ELSE InvokeMutate(W, m, result, opts)

\* Faulty variant: the then callback mutates whatever the input resolved to.
AdapterCallbackNoFunctionCheck(W, resolved, m, opts) == InvokeMutate(W, m, resolved, opts)

\* The callback of input.then(...).
AdapterCallback(W, resolved, m, opts) ==
    IF IsFunction(resolved)
    THEN MakeWrapper(W, resolved, m, opts)
    ELSE InvokeMutate(W, m, resolved, opts)

\* Faulty variant: the object branch normalises its result into a promise.
TransformerAlwaysDeferred(W, inp, opts, m) ==
    IF IsFunction(inp) THEN MakeWrapper(W, inp, m, opts)
    ELSE IF IsPromise(inp) THEN Then(W, inp.id, "adapter", m, opts)
    ELSE LET r == InvokeMutate(W, m, inp, opts)
         IN  IF r.thrown \/ IsPromise(r.v) THEN r
             ELSE [W |-> [r.W EXCEPT !.P = Append(@, NewPromise("mutate", Fate(TRUE, r.v), 0, m, opts))],
                   v |-> Prom(Len(r.W.P) + 1), thrown |-> FALSE]

\* Faulty variant: the object branch awaits the input before mutating it.
TransformerAwaitsObject(W, inp, opts, m) ==
    IF IsFunction(inp) THEN MakeWrapper(W, inp, m, opts)
    ELSE IF IsPromise(inp) THEN Then(W, inp.id, "adapter", m, opts)
    ELSE LET W1 == [W EXCEPT !.P = Append(@, [NewPromise("then", NoFate, 0, 0, Undef)
                                               EXCEPT !.state = "fulfilled", !.val = inp])]
         IN  Then(W1, Len(W1.P), "adapter", m, opts)

\* Faulty variant: a mutation that throws falls back to the unchanged configuration.
TransformerFallsBack(W, inp, opts, m) ==
    IF IsFunction(inp) THEN MakeWrapper(W, inp, m, opts)
    ELSE IF IsPromise(inp) THEN Then(W, inp.id, "adapter", m, opts)
    ELSE LET r == InvokeMutate(W, m, inp, opts)
         IN  IF r.thrown THEN [W |-> r.W, v |-> inp, thrown |-> FALSE] ELSE r

\* Faulty variant: a promise is not awaited but handed to the mutation as it is.
TransformerNoAwait(W, inp, opts, m) ==
    IF IsFunction(inp) THEN MakeWrapper(W, inp, m, opts)
    ELSE InvokeMutate(W, m, inp, opts)

\* Faulty variant: the object branch calls the mutation twice and returns the
\* second result.
TransformerTwice(W, inp, opts, m) ==
    IF IsFunction(inp) THEN MakeWrapper(W, inp, m, opts)
    ELSE IF IsPromise(inp) THEN Then(W, inp.id, "adapter", m, opts)
    ELSE InvokeMutate(InvokeMutate(W, m, inp, opts).W, m, inp, opts)

\* The transformer of mutation m applied to inp with options opts.
Transformer(W, inp, opts, m) ==
    IF IsFunction(inp) THEN MakeWrapper(W, inp, m, opts)
    ELSE IF IsPromise(inp) THEN Then(W, inp.id, "adapter", m, opts)
    ELSE InvokeMutate(W, m, inp, opts)

\* ---------------------------------------------------------------- composeMetroConfigTransformers
\* Faulty variant: the reduce callback calls every transformer without options.
EntryOptionsDropped(entry) == Undef

\* The options an entry hands to its transformer: a tuple's second element,
\* nothing (undefined) for a plain transformer.
EntryOptions(entry) == IF entry.pair THEN entry.opts ELSE Undef

\* Faulty variant: every entry is applied to the original input, not to the accumulator.
ReducerStale(W, a, i) == Transformer(W, input, EntryOptions(entries[i]), i)

\* The reduce callback for entry i and accumulator a.
Reducer(W, a, i) == Transformer(W, a, EntryOptions(entries[i]), i)

\* ---------------------------------------------------------------- initial states
\* Which entries are tuples [transformer, options]: the odd ones; the even
\* ones are plain transformers.
Paired(i) == i % 2 = 1

Chains ==
    UNION {{[i \in 1..n |->
                [kind |-> ks[i], pair |-> Paired(i),
                 opts |-> IF Paired(i) THEN Opt(OptNames[i]) ELSE Undef]] :
               ks \in [1..n -> MutateKinds]} : n \in 0..MaxEntries}

\* The five input shapes, with the producers and promises that fail as well.
Inputs ==
    {[input |-> Cfg(<<"in">>), P |-> <<>>, F |-> <<>>]}
    \cup {[input |-> Prom(1), F |-> <<>>,
           P |-> <<NewPromise("input", Fate(TRUE, Cfg(<<"in">>)), 0, 0, Undef)>>]}
    \cup {[input |-> Prom(1), F |-> <<>>,
           P |-> <<NewPromise("input", Fate(FALSE, Err("in")), 0, 0, Undef)>>]}
    \cup {[input |-> Fn(1), P |-> <<>>, F |-> <<ProducerFn(pk)>>] : pk \in ProducerKinds}
    \cup {[input |-> Prom(1), F |-> <<ProducerFn(pk)>>,
           P |-> <<NewPromise("input", Fate(TRUE, Fn(1)), 0, 0, Undef)>>] : pk \in ProducerKinds}

\* No second call is under way.
NoCall == [pc |-> "none", input |-> Undef, output |-> Undef]

Init ==
    /\ entries \in Chains
    /\ \E i \in Inputs : input = i.input /\ promises = i.P /\ fns = i.F
    /\ pc = "idle" /\ idx = 1 /\ acc = Undef /\ output = Undef
    /\ jobs = <<>>
    /\ mlog = <<>> /\ elog = <<>> /\ flog = <<>>
    /\ other = NoCall

\* ---------------------------------------------------------------- actions
SetWorld(W) == promises' = W.P /\ fns' = W.F /\ jobs' = W.J /\ mlog' = W.L

\* The caller applies the combined transformer to input: reduce starts.
Call ==
    /\ pc = "idle"
    /\ pc' = "folding" /\ acc' = input /\ idx' = 1
    /\ UNCHANGED <<entries, other, input, output, promises, fns, jobs, mlog, elog, flog>>

\* Faulty variant: the reduce callback catches a throwing entry and keeps the accumulator.
FoldStepSwallows ==
    /\ pc = "folding" /\ idx <= Len(entries)
    /\ LET r == Reducer(World, acc, idx)
       IN  /\ SetWorld(r.W)
           /\ elog' = Append(elog, idx)
           /\ acc' = IF r.thrown THEN acc ELSE r.v
           /\ idx' = idx + 1
    /\ UNCHANGED <<entries, other, input, pc, output, flog>>

\* Faulty variant: the object branch copies the mutation's result back into
\* the object it was given (Object.assign(input, result)).
FoldStepWritesBack ==
    /\ pc = "folding" /\ idx <= Len(entries)
    /\ LET r == Reducer(World, acc, idx)
       IN  /\ SetWorld(r.W)
           /\ elog' = Append(elog, idx)
           /\ input' = IF acc = input /\ acc.t = "cfg" /\ ~r.thrown /\ r.v.t = "cfg"
                       THEN r.v ELSE input
           /\ IF r.thrown
              THEN pc' = "threw" /\ output' = r.v /\ UNCHANGED <<acc, idx>>
              ELSE acc' = r.v /\ idx' = idx + 1 /\ UNCHANGED <<pc, output>>
    /\ UNCHANGED <<entries, other, flog>>

\* One iteration of the reduce: the entry's transformer runs on the accumulator.
FoldStep ==
    /\ pc = "folding" /\ idx <= Len(entries)
    /\ LET r == Reducer(World, acc, idx)
       IN  /\ SetWorld(r.W)
           /\ elog' = Append(elog, idx)
           /\ IF r.thrown
              THEN pc' = "threw" /\ output' = r.v /\ UNCHANGED <<acc, idx>>
              ELSE acc' = r.v /\ idx' = idx + 1 /\ UNCHANGED <<pc, output>>
    /\ UNCHANGED <<entries, other, input, flog>>

\* Faulty variant: the combined transformer hands back a promise of the accumulator.
FoldReturnWrapped ==
    /\ pc = "folding" /\ idx > Len(entries)
    /\ pc' = "returned"
    /\ IF IsPromise(acc)
       THEN output' = acc /\ UNCHANGED promises
       ELSE /\ promises' = Append(promises, NewPromise("then", Fate(TRUE, acc), 0, 0, Undef))
            /\ output' = Prom(Len(promises) + 1)
    /\ UNCHANGED <<entries, other, input, idx, acc, fns, jobs, mlog, elog, flog>>

\* The reduce is over: the combined transformer returns the accumulator.
FoldReturn ==
    /\ pc = "folding" /\ idx > Len(entries)
    /\ pc' = "returned" /\ output' = acc
    /\ UNCHANGED <<entries, other, input, idx, acc, promises, fns, jobs, mlog, elog, flog>>

\* The reduce is synchronous: nothing else runs while it does.
Quiet == pc # "folding"

\* A promise made outside the library (the input, a mutate's or a producer's)
\* settles to its outcome.
Settle ==
    /\ Quiet
    /\ \E p \in 1..Len(promises) :
          /\ promises[p].state = "pending" /\ promises[p].fate.has
          /\ SetWorld(SettlePromise(World, p, promises[p].fate.ok, promises[p].fate.val))
    /\ UNCHANGED <<entries, other, input, pc, idx, acc, output, elog, flog>>

\* Faulty variant: the then callbacks are registered for rejection as well, so
\* a rejected promise's error is handed to the callback like a value.
RunJobOnRejection ==
    /\ Quiet /\ jobs # <<>>
    /\ LET j == Head(jobs)
           W0 == [World EXCEPT !.J = Tail(jobs)]
       IN  IF j.k = "forward" THEN SetWorld(SettlePromise(W0, j.target, j.ok, j.val))
           ELSE IF j.k = "adapter"
                THEN LET res == AdapterCallback(W0, j.val, j.m, j.opts)
                     IN  SetWorld(ResolveWith(res.W, j.target, res))
                ELSE LET res == InvokeMutate(W0, j.m, j.val, j.opts)
                     IN  SetWorld(ResolveWith(res.W, j.target, res))
    /\ UNCHANGED <<entries, other, input, pc, idx, acc, output, elog, flog>>

\* Faulty variant: a rejection is caught and the derived promise fulfilled
\* with undefined.
RunJobSwallowsRejection ==
    /\ Quiet /\ jobs # <<>>
    /\ LET j == Head(jobs)
           W0 == [World EXCEPT !.J = Tail(jobs)]
       IN  IF ~j.ok THEN SetWorld(SettlePromise(W0, j.target, TRUE, Undef))
           ELSE IF j.k = "forward" THEN SetWorld(SettlePromise(W0, j.target, TRUE, j.val))
           ELSE IF j.k = "adapter"
                THEN LET res == AdapterCallback(W0, j.val, j.m, j.opts)
                     IN  SetWorld(ResolveWith(res.W, j.target, res))
                ELSE LET res == InvokeMutate(W0, j.m, j.val, j.opts)
                     IN  SetWorld(ResolveWith(res.W, j.target, res))
    /\ UNCHANGED <<entries, other, input, pc, idx, acc, output, elog, flog>>

\* The oldest promise reaction job runs.
RunJob ==
    /\ Quiet /\ jobs # <<>>
    /\ LET j == Head(jobs)
           W0 == [World EXCEPT !.J = Tail(jobs)]
       IN  IF ~j.ok THEN SetWorld(SettlePromise(W0, j.target, FALSE, j.val))
           ELSE IF j.k = "forward" THEN SetWorld(SettlePromise(W0, j.target, TRUE, j.val))
           ELSE IF j.k = "adapter"
                THEN LET res == AdapterCallback(W0, j.val, j.m, j.opts)
                     IN  SetWorld(ResolveWith(res.W, j.target, res))
                ELSE LET res == InvokeMutate(W0, j.m, j.val, j.opts)
                     IN  SetWorld(ResolveWith(res.W, j.target, res))
    /\ UNCHANGED <<entries, other, input, pc, idx, acc, output, elog, flog>>

\* The callable the caller holds once the output is there: the output itself,
\* or what the output promise resolved to (0: none).
Callable ==
    IF pc # "returned" THEN 0
    ELSE IF IsFunction(output) THEN output.id
    ELSE IF IsPromise(output) /\ promises[output.id].state = "fulfilled"
            /\ IsFunction(promises[output.id].val)
         THEN promises[output.id].val.id
         ELSE 0

TopReturns == {i \in 1..Len(flog) : flog[i].top}

\* Faulty variant: the wrapper calls the callable it wraps without its argument.
InnerCallNoArgument(frame) == [fn |-> fns[frame.fn].inner, base |-> "none"]

\* The call input(baseConfig) of a wrapper: the callable it wraps, called with
\* the wrapper's own argument.
InnerCall(frame) == [fn |-> fns[frame.fn].inner, base |-> frame.base]

\* What a call has done to the heap and the log of returns, and its result.
Returned(r, FL, frame) ==
    [W |-> r.W, v |-> r.v, thrown |-> r.thrown,
     FL |-> Append(FL, [fn |-> frame.fn, base |-> frame.base, v |-> r.v,
                        thrown |-> r.thrown, top |-> FALSE])]

\* The call frame.fn(frame.base): the input producer runs, or a wrapper calls
\* the callable it wraps and then finishes with its result; an error thrown
\* by the wrapped callable passes through the wrapper.
RECURSIVE Invoke(_, _, _)
Invoke(W, FL, frame) ==
    LET f == fns[frame.fn]
    IN  IF f.k = "producer"
        THEN Returned(InvokeProducer(W, f.pk, frame.base), FL, frame)
        ELSE LET inner == Invoke(W, FL, InnerCall(frame))
             IN  IF inner.thrown
                 THEN Returned(inner, inner.FL, frame)
                 ELSE Returned(WrapperResult(inner.W, inner.v, f.m, f.opts), inner.FL, frame)

\* The caller invokes the callable with a base configuration, a new one each
\* time. No code inspects a base configuration, so which one comes first makes
\* no difference: they are taken in a fixed order.
CallerInvoke ==
    /\ Quiet /\ Callable # 0 /\ Cardinality(TopReturns) < MaxInvokes
    /\ \E b \in {BaseOrder[Cardinality(TopReturns) + 1]} :
          /\ \A i \in TopReturns : flog[i].base # b
          /\ LET r == Invoke(World, flog, [fn |-> Callable, base |-> b])
             IN  /\ SetWorld(r.W)
                 /\ flog' = [r.FL EXCEPT ![Len(r.FL)].top = TRUE]
    /\ UNCHANGED <<entries, other, input, pc, idx, acc, output, elog>>

Next ==
    \/ Call
    \/ FoldStep
    \/ FoldReturn
    \/ Settle
    \/ RunJob
    \/ CallerInvoke

Spec == Init /\ [][Next]_vars

\* ---------------------------------------------------------------- the composition as a whole
\* An entry of a composition: the adapted transformer of mutation m, given as
\* entries[m] gives it (plain or with options), or a composed transformer used
\* as a plain entry.
Leaf(m) == [leaf |-> TRUE, m |-> m, kids |-> <<>>]
Nested(kids) == [leaf |-> FALSE, m |-> 0, kids |-> kids]

\* The composition compose(...entries) itself.
Flat == [i \in 1..Len(entries) |-> Leaf(i)]

RECURSIVE Composed(_, _, _)
\* The reduce callback for entry e: an adapted transformer is called with the
\* accumulator and the entry's options, a composed one with the accumulator.
ApplyEntry(W, a, e) ==
    IF e.leaf THEN Reducer(W, a, e.m) ELSE Composed(W, a, e.kids)

\* The reduce over kids from entry i on, with accumulator a; an error thrown
\* by an entry ends it.
RECURSIVE ComposeFrom(_, _, _, _)
ComposeFrom(W, a, kids, i) ==
    IF i > Len(kids) THEN [W |-> W, v |-> a, thrown |-> FALSE]
    ELSE LET r == ApplyEntry(W, a, kids[i])
         IN  IF r.thrown THEN r ELSE ComposeFrom(r.W, r.v, kids, i + 1)

\* Faulty variant: the combined transformer is async: what it returns is
\* always a promise.
ComposedDeferred(W, a, kids) ==
    LET r == ComposeFrom(W, a, kids, 1)
    IN  IF r.thrown \/ IsPromise(r.v) THEN r
        ELSE [W |-> [r.W EXCEPT !.P = Append(@, [NewPromise("then", NoFate, 0, 0, Undef)
                                                  EXCEPT !.state = "fulfilled",
                                                         !.val = r.v])],
              v |-> Prom(Len(r.W.P) + 1), thrown |-> FALSE]

\* The combined transformer of kids applied to a.
Composed(W, a, kids) == ComposeFrom(W, a, kids, 1)

\* ---------------------------------------------------------------- a second call
\* The inputs of the first call that are not callables.
FirstInputs == {i \in Inputs : i.F = <<>>}

\* The inputs of the second call, their promise allocated after n others.
OtherInputs(n) ==
    {[input |-> Cfg(<<"in2">>), P |-> <<>>],
     [input |-> Prom(n + 1),
      P |-> <<NewPromise("input", Fate(TRUE, Cfg(<<"in2">>)), 0, 0, Undef)>>],
     [input |-> Prom(n + 1),
      P |-> <<NewPromise("input", Fate(FALSE, Err("in2")), 0, 0, Undef)>>]}

\* One combined transformer, about to be called twice with different inputs.
InitConc ==
    /\ entries \in Chains
    /\ \E i \in FirstInputs : \E o \in OtherInputs(Len(i.P)) :
          /\ input = i.input /\ promises = i.P \o o.P /\ fns = i.F
          /\ other = [pc |-> "idle", input |-> o.input, output |-> Undef]
    /\ pc = "idle" /\ idx = 1 /\ acc = Undef /\ output = Undef
    /\ jobs = <<>>
    /\ mlog = <<>> /\ elog = <<>> /\ flog = <<>>

\* Faulty variant: the accumulator of the reduce lives outside the returned
\* function, so a call made after another starts from what that one left.
CallOtherSharedAccumulator ==
    /\ Quiet /\ other.pc = "idle"
    /\ LET r == Composed(World, IF pc = "idle" THEN other.input ELSE acc, Flat)
       IN  /\ SetWorld(r.W)
           /\ other' = [other EXCEPT !.pc = IF r.thrown THEN "threw" ELSE "returned",
                                     !.output = r.v]
    /\ UNCHANGED <<entries, input, pc, idx, acc, output, elog, flog>>

\* The second call of the combined transformer: its reduce, start to end.
CallOther ==
    /\ Quiet /\ other.pc = "idle"
    /\ LET r == Composed(World, other.input, Flat)
       IN  /\ SetWorld(r.W)
           /\ other' = [other EXCEPT !.pc = IF r.thrown THEN "threw" ELSE "returned",
                                     !.output = r.v]
    /\ UNCHANGED <<entries, input, pc, idx, acc, output, elog, flog>>

NextConc ==
    \/ Call
    \/ FoldStep
    \/ FoldReturn
    \/ Settle
    \/ RunJob
    \/ CallOther

SpecConc == InitConc /\ [][NextConc]_vars

\* ================================================================ properties
Resolved(v) ==
    IF IsPromise(v) /\ promises[v.id].state = "fulfilled" THEN promises[v.id].val ELSE v

TagsUpTo(k) == [i \in 1..k |-> Tag(i)]
AllTags == TagsUpTo(Len(entries))
Sources == {<<"in">>} \cup {<<b, "P">> : b \in Bases}
Deferred(i) == entries[i].kind \in {"async", "reject"}
Kinds == [i \in 1..Len(entries) |-> entries[i].kind]

\* C1: whatever the input shape and whichever mutations are deferred, the
\* fully resolved final configuration (the output, what the output promise
\* resolves to, or what an invocation of the returned callable yields) carries
\* the source's marks followed by exactly T1..Tn in entry order, and the
\* mutation of entry i always receives the output of entry i-1.
C1_OrderPreserved ==
    /\ (pc = "returned" /\ Resolved(output).t = "cfg")
          => Resolved(output).tags = <<"in">> \o AllTags
    /\ \A i \in TopReturns :
          (~flog[i].thrown /\ Resolved(flog[i].v).t = "cfg")
             => Resolved(flog[i].v).tags = <<flog[i].base, "P">> \o AllTags
    /\ \A i \in 1..Len(mlog) :
          \E src \in Sources : mlog[i].cfg = src \o TagsUpTo(mlog[i].m - 1)

C1_Witness ==
    /\ Kinds = <<"async", "sync", "async">>
    /\ IsPromise(input) /\ pc = "returned"
    /\ \E i \in TopReturns :
          /\ IsPromise(flog[i].v)
          /\ Resolved(flog[i].v) = Cfg(<<flog[i].base, "P", "T1", "T2", "T3">>)

\* C2: with no entries the combined transformer returns its input itself,
\* whatever its shape, and calls no mutation, wraps no function, creates no
\* promise and calls no producer.
C2_EmptyIsIdentity ==
    (entries = <<>> /\ pc = "returned") =>
        /\ output = input
        /\ mlog = <<>>
        /\ \A f \in 1..Len(fns) : fns[f].k = "producer"
        /\ \A p \in 1..Len(promises) :
              /\ promises[p].k \in {"input", "producer"}
              /\ promises[p].k = "producer" => flog # <<>>

C2_Witness ==
    /\ entries = <<>> /\ pc = "returned"
    /\ IsPromise(input) /\ output = input
    /\ promises[input.id].state = "fulfilled" /\ IsFunction(promises[input.id].val)

\* C3: the shape of the output depends only on the input's shape and on
\* whether some mutation is deferred: a Direct input gives a Direct output
\* when every mutation is synchronous and a Deferred Direct one as soon as one
\* mutation is deferred; a Deferred Direct input gives Deferred Direct; a
\* callable input gives a callable; a Deferred-Wrapped Producer gives a promise
\* that resolves to a callable.
C3_ShapeDetermined ==
    pc = "returned" =>
        /\ input.t = "cfg" =>
              /\ output.t = IF \E i \in 1..Len(entries) : Deferred(i) THEN "prom" ELSE "cfg"
              /\ Resolved(output).t \in {"prom", "cfg"}
        /\ input.t = "fn" => output.t = "fn"
        /\ input.t = "prom" =>
              /\ output.t = "prom"
              /\ promises[output.id].state = "fulfilled" =>
                    promises[output.id].val.t =
                        IF IsFunction(promises[input.id].fate.val) THEN "fn" ELSE "cfg"

C3_Witness ==
    /\ input.t = "cfg" /\ Kinds = <<"sync", "async", "sync">>
    /\ pc = "returned" /\ IsPromise(output)
    /\ Resolved(output) = Cfg(<<"in", "T1", "T2", "T3">>)

\* What mutation m makes of configuration marks c when it works.
Mutated(c, m) == Cfg(Append(c, Tag(m)))
ExpectedOptions(m) == IF entries[m].pair THEN entries[m].opts ELSE Undef
SyncBefore(k) == \A j \in 1..(k - 1) : entries[j].kind = "sync"

\* C4: a transformer applied to a Direct value returns exactly what
\* mutate(input, options) returns: the mutated configuration when mutate is
\* synchronous, the error when it throws, and mutate's own promise (no derived
\* one) exactly when mutate is deferred; mutate has been called once with that
\* value and the entry's options.
C4_DirectIsMutateResult ==
    input.t = "cfg" =>
        /\ (pc = "folding" /\ idx > 1 /\ SyncBefore(idx - 1)) =>
              LET m == idx - 1
                  arg == <<"in">> \o TagsUpTo(m - 1)
              IN  /\ Len(mlog) = m
                  /\ mlog[m] = [m |-> m, opts |-> ExpectedOptions(m), cfg |-> arg]
                  /\ entries[m].kind = "sync" => acc = Mutated(arg, m)
                  /\ Deferred(m) <=> IsPromise(acc)
                  /\ Deferred(m) =>
                        /\ promises[acc.id].k = "mutate" /\ promises[acc.id].m = m
                        /\ Len(promises) = 1
                        /\ promises[acc.id].fate =
                              IF entries[m].kind = "async"
                              THEN Fate(TRUE, Mutated(arg, m))
                              ELSE Fate(FALSE, Err(Tag(m)))
        /\ pc = "threw" =>
              /\ SyncBefore(idx)
              /\ entries[idx].kind = "throw" /\ output = Err(Tag(idx))
              /\ Len(mlog) = idx
              /\ mlog[idx] = [m |-> idx, opts |-> ExpectedOptions(idx),
                              cfg |-> <<"in">> \o TagsUpTo(idx - 1)]
        /\ pc = "returned" =>
              \A k \in 1..Len(entries) : entries[k].kind = "throw" => ~SyncBefore(k)

C4_Witness ==
    /\ input.t = "cfg" /\ pc = "folding" /\ idx = 3
    /\ entries[1].kind = "sync" /\ entries[2].kind = "async"
    /\ IsPromise(acc) /\ promises[acc.id].k = "mutate"

\* C5: a transformer applied to a promise returns a new promise, never
\* throwing and never calling mutate at once; when the input resolves to a
\* configuration the output resolves to the mutated configuration, and when it
\* resolves to a callable the output resolves to a wrapper of that callable,
\* whose invocations yield the mutation of what the callable produced.
AdapterPromises == {p \in 1..Len(promises) : promises[p].k = "adapter"}

C5_DeferredInput ==
    /\ (IsPromise(input) /\ pc # "idle") =>
          /\ pc # "threw"
          /\ pc = "folding" =>
                /\ IsPromise(acc) /\ acc.id = idx /\ Len(promises) = idx
                /\ idx > 1 => promises[acc.id] =
                                 [NewPromise("adapter", NoFate, idx - 1, idx - 1,
                                             ExpectedOptions(idx - 1))
                                  EXCEPT !.state = promises[acc.id].state,
                                         !.val = promises[acc.id].val]
                /\ mlog = <<>>
    /\ \A p \in AdapterPromises :
          LET s == promises[promises[p].src]
              m == promises[p].m
          IN  promises[p].state = "fulfilled" =>
                 /\ s.state = "fulfilled"
                 /\ IF IsFunction(s.val)
                    THEN /\ IsFunction(promises[p].val)
                         /\ fns[promises[p].val.id] = WrapperFn(s.val.id, m, promises[p].opts)
                         /\ \A i \in 1..Len(flog) :
                               (flog[i].fn = promises[p].val.id
                                  /\ Resolved(flog[i].v).t = "cfg") =>
                                     /\ flog[i - 1].fn = s.val.id
                                     /\ Resolved(flog[i].v) =
                                           Mutated(Resolved(flog[i - 1].v).tags, m)
                    ELSE promises[p].val = Mutated(s.val.tags, m)

C5_Witness ==
    \E p \in AdapterPromises :
       /\ promises[p].state = "fulfilled" /\ IsFunction(promises[p].val)
       /\ entries[promises[p].m].kind = "sync"
       /\ \E i \in 1..Len(flog) :
             /\ flog[i].fn = promises[p].val.id
             /\ IsPromise(flog[i].v) /\ Resolved(flog[i].v).t = "cfg"

\* C6: the callable a transformer returns for a callable input gives, for
\* every base configuration, a promise if and only if the wrapped callable gave
\* a promise for that base or mutate did; so over a Deferred Producer it always
\* gives a promise and over a Producer with a synchronous mutate a
\* configuration.
WrapperReturns == {i \in 1..Len(flog) : fns[flog[i].fn].k = "wrapper"}

C6_CallableDeferredIff ==
    /\ IsFunction(input) => (pc = "returned" => IsFunction(output))
    /\ \A i \in WrapperReturns :
          LET w == fns[flog[i].fn]
          IN  /\ i > 1 /\ flog[i - 1].fn = w.inner
              /\ ~flog[i].thrown =>
                    /\ ~flog[i - 1].thrown
                    /\ IsPromise(flog[i].v) <=> (IsPromise(flog[i - 1].v) \/ Deferred(w.m))
                    /\ ~IsPromise(flog[i].v) => flog[i].v.t = "cfg"
              /\ flog[i].thrown =>
                    (flog[i - 1].thrown \/ (flog[i - 1].v.t = "cfg" /\ entries[w.m].kind = "throw"))
    /\ \A i \in TopReturns :
          /\ fns[1].pk \in {"async", "reject"} => IsPromise(flog[i].v)
          /\ (fns[1].pk = "sync" /\ SyncBefore(Len(entries) + 1)) => flog[i].v.t = "cfg"

C6_Witness ==
    /\ IsFunction(input) /\ fns[1].pk = "sync"
    /\ \E i \in WrapperReturns :
          /\ flog[i - 1].v.t = "cfg" /\ Deferred(fns[flog[i].fn].m) /\ IsPromise(flog[i].v)
    /\ \E i \in WrapperReturns :
          /\ flog[i - 1].v.t = "cfg" /\ flog[i].v.t = "cfg"

\* C7: the callable a transformer returns, invoked with base b, passes exactly
\* b to the callable it wraps and yields, once resolved, the mutation (called
\* with the transformer's options) of what that callable yielded for b: the
\* producer's mark first, the mutation's after it.
C7_CallablePassesBase ==
    \A i \in WrapperReturns :
       LET w == fns[flog[i].fn]
       IN  /\ i > 1 /\ flog[i - 1].fn = w.inner
           /\ flog[i - 1].base = flog[i].base
           /\ flog[i].base \in Bases
           /\ Resolved(flog[i].v).t = "cfg" =>
                 /\ Resolved(flog[i - 1].v).t = "cfg"
                 /\ Resolved(flog[i].v) = Mutated(Resolved(flog[i - 1].v).tags, w.m)
                 /\ SubSeq(Resolved(flog[i].v).tags, 1, 2) = <<flog[i].base, "P">>
                 /\ \E k \in 1..Len(mlog) :
                       mlog[k] = [m |-> w.m, opts |-> w.opts,
                                  cfg |-> Resolved(flog[i - 1].v).tags]

C7_Witness ==
    \E i \in WrapperReturns :
       /\ flog[i].base = "b1" /\ fns[flog[i].fn].inner = 1
       /\ fns[flog[i].fn].opts # Undef
       /\ Resolved(flog[i].v) = Cfg(<<"b1", "P", "T1">>)

\* C8: an entry given as a tuple delivers exactly its options to its own
\* mutation and a plain entry delivers undefined, also when the mutation runs
\* later, in a then callback or inside the returned callable.
C8_OptionsDelivered ==
    \A k \in 1..Len(mlog) : mlog[k].opts = ExpectedOptions(mlog[k].m)

C8_Witness ==
    /\ IsPromise(input) /\ IsFunction(promises[input.id].fate.val)
    /\ \E j, k \in 1..Len(mlog) :
          /\ mlog[j].m = 1 /\ mlog[j].opts = Opt("o1")
          /\ mlog[k].m = 2 /\ mlog[k].opts = Undef

\* The run a mutate call belongs to: the direct or deferred input ("in") or
\* the invocation with a given base configuration.
Run(c) == c[1]
FailingCalls == {k \in 1..Len(mlog) : entries[mlog[k].m].kind \in {"throw", "reject"}}

\* Entry i has failed: its mutation threw, or the promise it returned rejected.
Failed(i) ==
    \/ \E k \in 1..Len(mlog) : mlog[k].m = i /\ entries[i].kind = "throw"
    \/ \E p \in 1..Len(promises) :
          promises[p].k = "mutate" /\ promises[p].m = i /\ promises[p].state = "rejected"

\* v is a failure with error e: thrown, or a promise that rejects with e.
FailsWith(thrown, v, e) ==
    \/ thrown /\ v = e
    \/ /\ ~thrown /\ IsPromise(v) /\ promises[v.id].state # "fulfilled"
       /\ promises[v.id].state = "rejected" => promises[v.id].val = e

\* C9 as stated: once an entry has raised or rejected, the fold has halted:
\* no entry after it was run by the reduce, and the outcome is that error.
C9_FoldHaltsOnFailure ==
    \A i \in 1..Len(entries) :
       Failed(i) =>
          /\ \A k \in 1..Len(elog) : elog[k] <= i
          /\ IsFunction(input) \/ IsFunction(Resolved(output))
                \/ FailsWith(pc = "threw", output, Err(Tag(i)))

\* C9 amended: the reduce halts, throwing the error and running no later
\* entry, only when a mutation throws synchronously on a Direct accumulator;
\* otherwise the reduce runs every entry's transformer and returns, but within
\* one run (the direct or deferred input, or one invocation of the returned
\* callable) no mutation is called after a failing one nor is the failing one
\* called again, and the run's outcome (the output promise, or the callable's
\* result) fails with the failing mutation's error.
C9_FailFast ==
    /\ pc = "threw" =>
          /\ input.t = "cfg" /\ SyncBefore(idx)
          /\ entries[idx].kind = "throw" /\ output = Err(Tag(idx))
          /\ elog = [k \in 1..idx |-> k]
    /\ pc = "returned" => elog = [k \in 1..Len(entries) |-> k]
    /\ \A a \in FailingCalls :
          /\ \A b \in 1..Len(mlog) :
                (b # a /\ Run(mlog[b].cfg) = Run(mlog[a].cfg)) => mlog[b].m < mlog[a].m
          /\ (Run(mlog[a].cfg) = "in" /\ pc \in {"threw", "returned"}) =>
                FailsWith(pc = "threw", output, Err(Tag(mlog[a].m)))
          /\ \A i \in TopReturns :
                flog[i].base = Run(mlog[a].cfg) =>
                    FailsWith(flog[i].thrown, flog[i].v, Err(Tag(mlog[a].m)))

C9_Witness ==
    /\ input.t = "cfg" /\ Kinds = <<"sync", "reject", "sync">>
    /\ pc = "returned" /\ elog = <<1, 2, 3>>
    /\ IsPromise(output) /\ promises[output.id].state = "rejected"
    /\ promises[output.id].val = Err("T2")
    /\ Len(mlog) = 2

\* C10: for a single transformer over any input shape, a mutation that throws
\* or rejects with e makes the caller observe exactly e (thrown, or as the
\* rejection of the output promise or of the returned callable's result):
\* never a configuration in its place, and the mutation is not called again.
C10_MutationErrorVerbatim ==
    (Len(entries) = 1 /\ entries[1].kind \in {"throw", "reject"}) =>
        LET e == Err("T1")
        IN  /\ input.t = "cfg" =>
                  /\ pc \in {"threw", "returned"} => FailsWith(pc = "threw", output, e)
                  /\ pc = "threw" <=> (mlog # <<>> /\ entries[1].kind = "throw")
                  /\ Len(mlog) <= 1
            /\ (IsPromise(input) /\ pc = "returned") =>
                  /\ IsPromise(output)
                  /\ promises[input.id].fate.val.t = "cfg" =>
                        /\ FailsWith(FALSE, output, e)
                        /\ Len(mlog) <= 1
                        /\ mlog # <<>> => promises[input.id].state = "fulfilled"
            /\ \A i \in TopReturns :
                  /\ fns[1].pk = "sync" =>
                        /\ FailsWith(flog[i].thrown, flog[i].v, e)
                        /\ flog[i].thrown <=> entries[1].kind = "throw"
                  /\ fns[1].pk = "async" => FailsWith(FALSE, flog[i].v, e)
            /\ Len(mlog) <= Cardinality({i \in 1..Len(flog) : fns[flog[i].fn].k = "producer"})
                            + (IF fns # <<>> THEN 0 ELSE 1)

C10_Witness ==
    /\ Len(entries) = 1 /\ entries[1].kind = "throw"
    /\ IsPromise(input) /\ fns # <<>> /\ fns[1].pk = "async"
    /\ \E i \in TopReturns :
          /\ IsPromise(flog[i].v) /\ promises[flog[i].v.id].state = "rejected"
          /\ promises[flog[i].v.id].val = Err("T1")

\* C11: when the input producer throws or rejects on being invoked, every
\* callable of the chain invoked for that base configuration (the returned
\* one and each wrapper under it) fails with the producer's own error, thrown
\* when the producer threw and as a rejection when it rejected, and no
\* mutation of the chain has been called.
C11_ProducerErrorPropagates ==
    (fns # <<>> /\ fns[1].pk \in {"throw", "reject"}) =>
        /\ mlog = <<>>
        /\ \A i \in 1..Len(flog) :
              /\ FailsWith(flog[i].thrown, flog[i].v, Err("P"))
              /\ flog[i].thrown <=> fns[1].pk = "throw"
        /\ \A p \in 1..Len(promises) :
              promises[p].k = "wrapper" => promises[p].state # "fulfilled"

C11_Witness ==
    /\ IsFunction(input) /\ fns[1].pk = "reject"
    /\ Kinds = <<"sync", "async", "sync">>
    /\ \E i \in TopReturns :
          /\ fns[flog[i].fn].m = 3
          /\ IsPromise(flog[i].v) /\ promises[flog[i].v.id].state = "rejected"
          /\ promises[flog[i].v.id].val = Err("P")

\* C12: the mutation of step i+1 is called only after the mutation of step i
\* was called in the same run and its result is there: it receives that
\* result, and when step i is deferred the promise step i returned is already
\* fulfilled; within a run mutations are called in entry order; and while the
\* reduce itself runs, a mutation is called only when no step before it is
\* deferred (otherwise the step only builds a pending promise).
C12_MutationsInOrder ==
    /\ \A k \in 1..Len(mlog) :
          mlog[k].m > 1 =>
             \E j \in 1..(k - 1) :
                /\ mlog[j].m = mlog[k].m - 1
                /\ mlog[k].cfg = Append(mlog[j].cfg, Tag(mlog[j].m))
                /\ Deferred(mlog[j].m) =>
                      \E p \in 1..Len(promises) :
                         /\ promises[p].k = "mutate" /\ promises[p].m = mlog[j].m
                         /\ promises[p].fate.val = Cfg(mlog[k].cfg)
                         /\ promises[p].state = "fulfilled"
    /\ \A j, k \in 1..Len(mlog) :
          (j < k /\ mlog[j].cfg # <<>> /\ mlog[k].cfg # <<>>
             /\ Run(mlog[j].cfg) = Run(mlog[k].cfg)) => mlog[j].m < mlog[k].m
    /\ pc = "folding" =>
          \A k \in 1..Len(mlog) : input.t = "cfg" /\ SyncBefore(mlog[k].m)

C12_Witness ==
    /\ input.t = "cfg" /\ Kinds = <<"async", "sync", "async">>
    /\ pc = "returned" /\ Len(mlog) = 3
    /\ mlog[2].m = 2 /\ mlog[2].cfg = <<"in", "T1">>
    /\ mlog[3].m = 3 /\ mlog[3].cfg = <<"in", "T1", "T2">>
    /\ promises[output.id].state = "pending"

\* C13: the caller's original value is never written: whatever has run, a
\* Direct input still carries exactly the fields the caller passed (and a
\* promise or callable input is still the same promise or callable); the
\* mutation of the first entry received that very value, and what it built
\* (the accumulator, the output) is another value.
C13_InputUntouched ==
    /\ input \in {Cfg(<<"in">>), Prom(1), Fn(1)}
    /\ (input.t = "cfg" /\ mlog # <<>>) =>
          /\ mlog[1].m = 1 /\ Cfg(mlog[1].cfg) = input
          /\ pc = "folding" => Resolved(acc) # input
          /\ pc = "returned" => Resolved(output) # input

C13_Witness ==
    /\ input = Cfg(<<"in">>) /\ Kinds = <<"sync">>
    /\ pc = "returned" /\ output = Cfg(<<"in", "T1">>)

\* The first entry whose mutation fails (0: none does).
FirstFailing ==
    IF \E i \in 1..Len(entries) : entries[i].kind \in {"throw", "reject"}
    THEN CHOOSE i \in 1..Len(entries) :
            /\ entries[i].kind \in {"throw", "reject"}
            /\ \A j \in 1..(i - 1) : entries[j].kind \notin {"throw", "reject"}
    ELSE 0

\* The outcome o (with pcv telling whether the call returned or threw) is the
\* one a call with input src, whose configuration is marked s, has when it is
\* the only call: a function of the entries and of src alone.
AsIfAlone(pcv, src, o, s) ==
    LET ff == FirstFailing
        syncThrow == src.t = "cfg" /\ ff # 0 /\ entries[ff].kind = "throw" /\ SyncBefore(ff)
        rejects == IsPromise(src) /\ ~promises[src.id].fate.ok
    IN  pcv \in {"returned", "threw"} =>
           /\ pcv = "threw" <=> syncThrow
           /\ syncThrow => o = Err(Tag(ff))
           /\ ~syncThrow =>
                 IF src.t = "cfg" /\ SyncBefore(Len(entries) + 1)
                 THEN o = Cfg(<<s>> \o AllTags)
                 ELSE /\ IsPromise(o)
                      /\ promises[o.id].state = "fulfilled" =>
                            /\ ~rejects /\ ff = 0
                            /\ promises[o.id].val = Cfg(<<s>> \o AllTags)
                      /\ promises[o.id].state = "rejected" =>
                            IF rejects THEN promises[o.id].val = Err(s)
                            ELSE ff # 0 /\ promises[o.id].val = Err(Tag(ff))

C15_ShapesClosed ==
    /\ pc # "idle" =>
          /\ input.t = "cfg" => acc.t \in {"cfg", "prom"}
          /\ input.t = "prom" => acc.t = "prom"
          /\ input.t = "fn" => acc.t = "fn"
          /\ (pc = "folding" /\ input.t = "cfg") =>
                (acc.t = "prom" <=> \E i \in 1..(idx - 1) : Deferred(i))
          /\ (IsPromise(acc) /\ promises[acc.id].state = "fulfilled") =>
                promises[acc.id].val.t =
                    IF IsPromise(input) /\ IsFunction(promises[input.id].fate.val)
                    THEN "fn" ELSE "cfg"
    /\ \A p \in 1..Len(promises) :
          promises[p].state = "fulfilled" =>
             /\ promises[p].val.t \in {"cfg", "fn"}
             /\ promises[p].val.t = "fn" => promises[p].k \in {"input", "adapter"}
    /\ \A i \in 1..Len(flog) : ~flog[i].thrown => flog[i].v.t \in {"cfg", "prom"}
    /\ \A i \in WrapperReturns :
          (~flog[i].thrown /\ ~flog[i - 1].thrown) =>
             IF IsPromise(flog[i - 1].v)
             THEN /\ IsPromise(flog[i].v)
                  /\ promises[flog[i].v.id].k = "wrapper"
                  /\ promises[flog[i].v.id].src = flog[i - 1].v.id
             ELSE /\ Deferred(fns[flog[i].fn].m) <=> IsPromise(flog[i].v)
                  /\ IsPromise(flog[i].v) => promises[flog[i].v.id].k = "mutate"

C15_Witness ==
    /\ IsFunction(input) /\ fns[1].pk = "sync"
    /\ Kinds = <<"async", "sync">>
    /\ \E i, j \in WrapperReturns :
          /\ fns[flog[i].fn].m = 1 /\ fns[flog[j].fn].m = 2
          /\ promises[flog[i].v.id].k = "mutate"
          /\ promises[flog[j].v.id].k = "wrapper"
          /\ Resolved(flog[j].v) = Cfg(<<flog[j].base, "P", "T1", "T2">>)

\* The calls of mutation m made for the invocation with base b.
MutateCalls(m, b) == {k \in 1..Len(mlog) : mlog[k].m = m /\ mlog[k].cfg[1] = b}
ProducerReturns == {k \in 1..Len(flog) : fns[flog[k].fn].k = "producer"}

\* C16: over a callable input (a Producer, a Deferred Producer, or one that a
\* promise resolves to) applying the transformers calls neither the producer
\* nor any mutation and creates no promise of theirs: as long as the returned
\* callable has not been invoked both logs are empty. Each invocation calls
\* the producer exactly once, with that invocation's base, and each mutation
\* at most once, on that invocation's configuration, and exactly once by the
\* time the invocation's result has resolved to a configuration.
C16_LazyOnCallables ==
    fns # <<>> =>
        /\ TopReturns = {} =>
              /\ mlog = <<>> /\ flog = <<>>
              /\ \A p \in 1..Len(promises) : promises[p].k \in {"input", "adapter"}
        /\ Cardinality(ProducerReturns) = Cardinality(TopReturns)
        /\ \A k \in 1..Len(mlog) :
              /\ mlog[k].cfg # <<>>
              /\ \E i \in TopReturns : flog[i].base = mlog[k].cfg[1]
        /\ \A i \in TopReturns :
              /\ Cardinality({k \in ProducerReturns : flog[k].base = flog[i].base}) = 1
              /\ \A m \in 1..Len(entries) :
                    /\ Cardinality(MutateCalls(m, flog[i].base)) <= 1
                    /\ (~flog[i].thrown /\ Resolved(flog[i].v).t = "cfg") =>
                          \E k \in MutateCalls(m, flog[i].base) :
                             mlog[k].cfg = <<flog[i].base, "P">> \o TagsUpTo(m - 1)

C16_Witness ==
    /\ IsFunction(input) /\ fns[1].pk = "async"
    /\ Kinds = <<"sync", "async", "sync">>
    /\ \E i \in TopReturns :
          /\ flog[i].base = "b1"
          /\ Resolved(flog[i].v) = Cfg(<<"b1", "P", "T1", "T2", "T3">>)
          /\ \A m \in 1..3 : Cardinality(MutateCalls(m, "b1")) = 1

\* C17: for a Direct or Deferred Direct input the mutations called so far are
\* always exactly those of entries 1..k, each once and in order; once the
\* final result has resolved to a configuration k is the number of entries
\* and no entry fails; and once entry i has failed (its mutation threw or its
\* promise rejected) k is i and stays i: every mutation before it was called
\* once, none after it ever is.
C17_ExactlyOnce ==
    fns = <<>> =>
        /\ [k \in 1..Len(mlog) |-> mlog[k].m] = [k \in 1..Len(mlog) |-> k]
        /\ Len(mlog) <= Len(entries)
        /\ (pc = "returned" /\ Resolved(output).t = "cfg") =>
              /\ Len(mlog) = Len(entries)
              /\ FirstFailing = 0
        /\ \A i \in 1..Len(entries) : Failed(i) => (Len(mlog) = i /\ FirstFailing = i)
        /\ (pc = "threw" \/ (pc = "returned" /\ IsPromise(output)
                               /\ promises[output.id].state = "rejected"
                               /\ (IsPromise(input) => promises[input.id].fate.ok))) =>
              Len(mlog) = FirstFailing

C17_Witness ==
    /\ IsPromise(input) /\ fns = <<>>
    /\ Kinds = <<"async", "reject", "sync">>
    /\ pc = "returned" /\ promises[output.id].state = "rejected"
    /\ promises[output.id].val = Err("T2")
    /\ Len(mlog) = 2

\* compose(compose(T1, .., Tn-1), Tn) and compose(T1, compose(T2, .., Tn)).
NestedLeft ==
    LET n == Len(entries)
    IN  <<Nested([i \in 1..(n - 1) |-> Leaf(i)]), Leaf(n)>>
NestedRight ==
    LET n == Len(entries)
    IN  <<Leaf(1), Nested([i \in 1..(n - 1) |-> Leaf(i + 1)])>>

\* The values a combined transformer is applied to: the input, before the call
\* (its promise pending or settled), and each accumulator the reduce reaches.
Applicable ==
    IF pc = "idle" THEN {input} ELSE IF pc = "folding" THEN {input, acc} ELSE {}

\* C18: for every input and every accumulator of the reduce, the composition with
\* its first n-1 entries nested, the one with its last n-1 entries nested and
\* the flat one return the same value (or throw the same error) and leave the
\* same heap of promises, functions, jobs and mutate calls, hence the same
\* output shape and the same resolved configuration; and the composition of
\* one entry does what the entry's transformer does with the entry's options,
\* none for a plain entry.
C18_NestingIsFlattening ==
    \A x \in Applicable :
       /\ Len(entries) >= 2 =>
             /\ Composed(World, x, NestedLeft) = Composed(World, x, Flat)
             /\ Composed(World, x, NestedRight) = Composed(World, x, Flat)
       /\ \A i \in 1..Len(entries) :
             /\ Composed(World, x, <<Leaf(i)>>) =
                   Transformer(World, x, EntryOptions(entries[i]), i)
             /\ ~entries[i].pair =>
                   Composed(World, x, <<Nested(<<Leaf(i)>>)>>) = Transformer(World, x, Undef, i)

C18_Witness ==
    /\ Kinds = <<"sync", "async", "sync">>
    /\ pc = "idle" /\ IsPromise(input) /\ promises[input.id].state = "fulfilled"
    /\ IsFunction(promises[input.id].val)
    /\ LET r == Composed(World, input, NestedRight)
       IN  /\ ~r.thrown /\ IsPromise(r.v) /\ Len(r.W.P) = Len(promises) + 3
           /\ r = Composed(World, input, Flat)

\* Nothing is left to run: no job is queued and no promise is about to settle.
Quiescent ==
    /\ jobs = <<>>
    /\ \A p \in 1..Len(promises) : ~(promises[p].state = "pending" /\ promises[p].fate.has)

\* C19: when the input promise rejects with e, the combined transformer never
\* throws and returns a promise; no promise of the chain is ever fulfilled and
\* every one that settles rejects with e; once nothing is left to run the
\* output has rejected with e; and no mutation is called, no callable wrapped
\* or invoked.
C19_RejectedInput ==
    (IsPromise(input) /\ ~promises[input.id].fate.ok) =>
        LET e == promises[input.id].fate.val
        IN  /\ e = Err("in")
            /\ mlog = <<>> /\ flog = <<>> /\ fns = <<>>
            /\ pc # "threw"
            /\ pc = "folding" => IsPromise(acc)
            /\ \A p \in 1..Len(promises) :
                  /\ promises[p].state # "fulfilled"
                  /\ promises[p].state = "rejected" => promises[p].val = e
            /\ pc = "returned" =>
                  /\ IsPromise(output)
                  /\ Quiescent =>
                        (promises[output.id].state = "rejected" /\ promises[output.id].val = e)

C19_Witness ==
    /\ IsPromise(input) /\ ~promises[input.id].fate.ok
    /\ Kinds = <<"sync", "async", "throw">>
    /\ pc = "returned" /\ output = Prom(4)
    /\ promises[4].state = "rejected" /\ promises[4].val = Err("in")
    /\ mlog = <<>>
====
